---- MODULE Spec2Model ----
(***************************************************************************)
(* okra-js: the PostgreSQL Merkle search tree (packages/okra-pg Tree) and  *)
(* the bulk Builder (packages/okra Builder).                               *)
(*                                                                         *)
(* The nodes table is a set of rows.  Every `await client.query(...)` of   *)
(* the Tree is one storage step: pg.Client keeps the queries of one        *)
(* connection in a FIFO queue and runs one at a time, so a mutation is a   *)
(* set of chains of awaits (the awaited chain, and the chains delete()     *)
(* starts without awaiting them), each with at most one query in the       *)
(* queue.                                                                  *)
(***************************************************************************)
EXTENDS Integers, Sequences, FiniteSets, TLC

(* ------------------------------------------------------------------ *)
(* Bounds of the model                                                 *)
(* ------------------------------------------------------------------ *)
NumKeys == 3
NumValues == 2
MaxQ == 4
MaxNodeCount == 4
MaxFinalize == 2
MaxLeaves == 0
NumSecondKeys == 1

(* ------------------------------------------------------------------ *)
(* Keys, values, nodes                                                 *)
(* ------------------------------------------------------------------ *)
\* Key = Uint8Array | null, and a BYTEA column that may be NULL
Bytes(b) == [null |-> FALSE, bytes |-> b]
Null == [null |-> TRUE, bytes |-> <<>>]

\* the keys and values the callers pass: byte strings of one or two bytes
KeyOf(i) == IF i % 2 = 1 THEN <<i \div 2>> ELSE <<i \div 2, 0>>
Keys == {KeyOf(i) : i \in 1..NumKeys}
Values == {<<j>> : j \in 0..(NumValues - 1)}

Node(level, key, hash, value) == [level |-> level, key |-> key, hash |-> hash, value |-> value]
\* `null` where the code has Node | null, `undefined` for rows[0] of no rows
NoNode == Node(-1, Null, <<>>, Null)

(* ------------------------------------------------------------------ *)
(* Byte strings: BYTEA comparison, big-endian integers                 *)
(* ------------------------------------------------------------------ *)
RECURSIVE BytesLess(_, _)
\* a < b on BYTEA: lexicographic by unsigned bytes, a proper prefix first
BytesLess(a, b) ==
    IF b = <<>> THEN FALSE
    ELSE IF a = <<>> THEN TRUE
    ELSE IF Head(a) # Head(b) THEN Head(a) < Head(b)
    ELSE BytesLess(Tail(a), Tail(b))

BytesLeq(a, b) == a = b \/ BytesLess(a, b)

\* DataView.setUint32(0, n) for n < 2^16: the lengths hashEntry writes
Uint32BE(n) == <<0, 0, n \div 256, n % 256>>

(* ------------------------------------------------------------------ *)
(* The hash function (blake3 with dkLen = K), as a byte mixing         *)
(* ------------------------------------------------------------------ *)
HashModulus == 16777213
HashMultiplier == 127
HashIV == 7

Absorb1(s, b) == (s * HashMultiplier + b + 1) % HashModulus

RECURSIVE Absorb(_, _)
\* hash.update(bytes)
Absorb(s, bytes) == IF bytes = <<>> THEN s ELSE Absorb(Absorb1(s, Head(bytes)), Tail(bytes))

RECURSIVE Squeeze(_, _, _)
\* hash.digest(): dkLen bytes out of the state
Squeeze(s, i, dkLen) ==
    IF i > dkLen THEN <<>>
    ELSE CHOOSE out \in {<<(t \div 251) % 256>> \o Squeeze(t, i + 1, dkLen) :
                          t \in {Absorb1(Absorb1(Absorb1(s, i), i), i)}} : TRUE

\* blake3.create({ dkLen }), hash.update(bytes), hash.digest()
HashCreate == HashIV
HashUpdate(s, bytes) == Absorb(s, bytes)
HashDigest(s, dkLen) == Squeeze(s, 1, dkLen)

\* blake3(bytes, { dkLen })
Blake3(bytes, dkLen) == HashDigest(HashUpdate(HashCreate, bytes), dkLen)

(* ------------------------------------------------------------------ *)
(* State                                                               *)
(* ------------------------------------------------------------------ *)
VARIABLES
    K,        \* Tree.K: digest length in bytes
    Q,        \* Tree.Q: target width
    nodes,    \* the rows of the nodes table
    chains,   \* per chain of awaits: its call stack and the query it awaits
    queue,    \* pg.Client's query queue: the chains with a query in it, in order
    error,    \* the error the running mutation threw, "none" when none
    op,       \* the mutation being run ("none" between mutations)
    pre,      \* the rows when the running mutation started
    retry,    \* "no", or where a mutation aborted by a storage failure stands
    ref,      \* history: the entries a plain map would hold
    fresh,    \* history: every mutation so far was a set of an absent key
    undo,     \* history: the root before the last set of an absent key
    builder,  \* the Builder: its store's rows and its nodeCount
    finalized, \* history: the calls of Builder.finalize since the last Builder.set
    second    \* a mutation of a second caller: its chains, its queries, its error

vars == <<K, Q, nodes, chains, queue, error, op, pre, retry, ref, fresh, undo, builder, finalized, second>>

\* the options the callers pass to Tree.initialize
KValues == {4}
QValues == {2, 4}

(* ------------------------------------------------------------------ *)
(* Tree constructor: LIMIT, LIMIT_KEY, LEAF_ANCHOR_HASH                *)
(* ------------------------------------------------------------------ *)
\* LIMIT = Number((1n << 32n) / BigInt(Q)), kept as LimitHi * 2^16 + LimitLo
LimitHi == 65536 \div Q
LimitLo == ((65536 % Q) * 65536) \div Q

\* setUint32(0, LIMIT): LIMIT modulo 2^32, big-endian
LIMIT_KEY == <<(LimitHi % 65536) \div 256, LimitHi % 256, LimitLo \div 256, LimitLo % 256>>

LEAF_ANCHOR_HASH == Blake3(<<>>, K)

\* view.getUint32(0) < this.LIMIT
isBoundary(node) ==
    LET hi == node.hash[1] * 256 + node.hash[2]
        lo == node.hash[3] * 256 + node.hash[4]
    IN  hi < LimitHi \/ (hi = LimitHi /\ lo < LimitLo)

\* the SQL condition `hash < $3` with $3 = LIMIT_KEY
HashBelowLimitKey(hash) == BytesLess(hash, LIMIT_KEY)

hashEntry(key, value) ==
    Blake3(Uint32BE(Len(key)) \o key \o Uint32BE(Len(value)) \o value, K)

(* ------------------------------------------------------------------ *)
(* The queries, on a set of rows                                       *)
(* ------------------------------------------------------------------ *)
\* (key ISNULL AND $2 ISNULL) OR (key = $2)
KeyMatches(rowKey, key) ==
    \/ rowKey.null /\ key.null
    \/ ~rowKey.null /\ ~key.null /\ rowKey.bytes = key.bytes

RowsOf(rows, level, key) == {r \in rows : r.level = level /\ KeyMatches(r.key, key)}

\* the rows of a level with a key, and the row with the least / greatest key
Keyed(rows, level) == {r \in rows : r.level = level /\ ~r.key.null}
MinKey(rs) == CHOOSE r \in rs : \A o \in rs : BytesLeq(r.key.bytes, o.key.bytes)
MaxKey(rs) == CHOOSE r \in rs : \A o \in rs : BytesLeq(o.key.bytes, r.key.bytes)

RECURSIVE SortByKey(_)
\* ORDER BY key ASC, of rows with a key
SortByKey(rs) ==
    IF rs = {} THEN <<>>
    ELSE CHOOSE sorted \in {<<m>> \o SortByKey(rs \ {m}) : m \in {MinKey(rs)}} : TRUE

\* ORDER BY key ASC NULLS FIRST
Ordered(rs) ==
    LET anchors == {r \in rs : r.key.null}
    IN  (IF anchors = {} THEN <<>> ELSE <<CHOOSE r \in anchors : TRUE>>)
        \o SortByKey(rs \ anchors)

RECURSIVE UpdateAll(_, _)
\* for (const child of children) hash.update(child.hash)
UpdateAll(s, children) ==
    IF children = <<>> THEN s ELSE UpdateAll(HashUpdate(s, Head(children).hash), Tail(children))

getNodeRow(rows, level, key) ==
    LET found == RowsOf(rows, level, key)
    IN  IF found = {} THEN NoNode ELSE CHOOSE r \in found : TRUE

\* mutant of updateRow: the UPDATE leaves the value column alone
updateRow_keepsValue(rows, node) ==
    {IF r.level = node.level /\ KeyMatches(r.key, node.key)
        THEN [r EXCEPT !.hash = node.hash]
        ELSE r : r \in rows}

insertRow(rows, node) == rows \cup {node}

updateRow(rows, node) ==
    {IF r.level = node.level /\ KeyMatches(r.key, node.key)
        THEN [r EXCEPT !.hash = node.hash, !.value = node.value]
        ELSE r : r \in rows}

deleteRow(rows, level, key) == rows \ RowsOf(rows, level, key)

\* mutant of firstSiblingRow: the SELECT without the `key ISNULL OR` alternative
firstSiblingRow_withoutAnchor(rows, node) ==
    LET bounds == {r \in Keyed(rows, node.level) :
                       BytesLeq(r.key.bytes, node.key.bytes) /\ HashBelowLimitKey(r.hash)}
    IN  IF bounds # {} THEN [MaxKey(bounds) EXCEPT !.value = Null]
        ELSE NoNode

\* getFirstSibling's SELECT: the last boundary at or before the key, else the anchor
firstSiblingRow(rows, node) ==
    LET bounds == {r \in Keyed(rows, node.level) :
                       BytesLeq(r.key.bytes, node.key.bytes) /\ HashBelowLimitKey(r.hash)}
        anchors == {r \in rows : r.level = node.level /\ r.key.null}
    IN  IF bounds # {} THEN [MaxKey(bounds) EXCEPT !.value = Null]
        ELSE IF anchors # {} THEN [(CHOOSE r \in anchors : TRUE) EXCEPT !.value = Null]
        ELSE NoNode

\* mutant of getHashRows: the chunk runs up to and including the next boundary
getHashRows_throughBoundary(rows, level, key) ==
    LET below == {r \in rows : r.level = level - 1}
        later == {r \in Keyed(rows, level - 1) :
                      (key.null \/ BytesLess(key.bytes, r.key.bytes)) /\ HashBelowLimitKey(r.hash)}
    IN  {r \in below :
            /\ key.null \/ (~r.key.null /\ BytesLeq(key.bytes, r.key.bytes))
            /\ \/ r.key.null
               \/ later # {} /\ BytesLeq(r.key.bytes, MinKey(later).key.bytes)
               \/ later = {}}

\* getHash's SELECT and digest: the chunk of level - 1 that starts at key
getHashRows(rows, level, key) ==
    LET below == {r \in rows : r.level = level - 1}
        later == {r \in Keyed(rows, level - 1) :
                      (key.null \/ BytesLess(key.bytes, r.key.bytes)) /\ HashBelowLimitKey(r.hash)}
    IN  {r \in below :
            /\ key.null \/ (~r.key.null /\ BytesLeq(key.bytes, r.key.bytes))
            /\ \/ r.key.null
               \/ later # {} /\ BytesLess(r.key.bytes, MinKey(later).key.bytes)
               \/ later = {}}

getHashOf(rows, level, key) ==
    HashDigest(UpdateAll(HashCreate, Ordered(getHashRows(rows, level, key))), K)

\* updateAnchor's SELECT: the first row of the level that has a key
firstKeyedRow(rows, level) ==
    IF Keyed(rows, level) = {} THEN NoNode ELSE MinKey(Keyed(rows, level))

\* getRoot's SELECT ... ORDER BY level DESC LIMIT 1: any row of the highest level
getRootRows(rows) == {r \in rows : \A o \in rows : o.level <= r.level}

(* ------------------------------------------------------------------ *)
(* One query of the client, and its effect on the rows                 *)
(* ------------------------------------------------------------------ *)
QueryOf(kind, level, key, node) == [kind |-> kind, level |-> level, key |-> key, node |-> node]
NoQuery == QueryOf("none", 0, Null, NoNode)

\* the rows after the query, and what the awaiting code gets back
Exec(rows, q) ==
    CASE q.kind = "getNode" -> [rows |-> rows, res |-> getNodeRow(rows, q.level, q.key)]
      [] q.kind = "insert" -> [rows |-> insertRow(rows, q.node), res |-> NoNode]
      [] q.kind = "update" -> [rows |-> updateRow(rows, q.node), res |-> NoNode]
      [] q.kind = "deleteNode" -> [rows |-> deleteRow(rows, q.level, q.key), res |-> NoNode]
      [] q.kind = "firstSibling" -> [rows |-> rows, res |-> firstSiblingRow(rows, q.node)]
      [] q.kind = "getHash" ->
            [rows |-> rows, res |-> Node(q.level, q.key, getHashOf(rows, q.level, q.key), Null)]
      [] q.kind = "firstKeyed" -> [rows |-> rows, res |-> firstKeyedRow(rows, q.level)]
      [] OTHER -> [rows |-> rows, res |-> NoNode]

(* ------------------------------------------------------------------ *)
(* The async methods of Tree, one frame per call; each runs from the   *)
(* point it was resumed at to its next await                           *)
(* ------------------------------------------------------------------ *)
Frame(fn, pc, level, key, node, aux) ==
    [fn |-> fn, pc |-> pc, level |-> level, key |-> key, node |-> node, aux |-> aux]
At(f, pc) == [f EXCEPT !.pc = pc]

\* what a method does next: await a query, go on in another frame, or throw
Await(stack, q) == [kind |-> "await", stack |-> stack, query |-> q, res |-> NoNode, fork |-> "none"]
\* go on after calling methods that are not awaited: they run as chains of their own
Fork(stack, res, fork) == [kind |-> "goto", stack |-> stack, query |-> NoQuery, res |-> res, fork |-> fork]
Goto(stack, res) == [kind |-> "goto", stack |-> stack, query |-> NoQuery, res |-> res, fork |-> "none"]
Throw(msg) == [kind |-> msg, stack |-> <<>>, query |-> NoQuery, res |-> NoNode, fork |-> "none"]

Call(fn, level, key, node, aux) == Frame(fn, "start", level, key, node, aux)

\* mutant of UpFrom: the recomputation starts at the level of the node itself
UpFrom_sameLevel(firstSibling, level) ==
    IF firstSibling.key.null
    THEN Call("updateAnchor", level - 1, Null, NoNode, NoNode)
    ELSE Call("update", level, firstSibling.key, NoNode, NoNode)

\* line 80-84, 105-109, 122-126: up from the first sibling
UpFrom(firstSibling, level) ==
    IF firstSibling.key.null
    THEN Call("updateAnchor", level, Null, NoNode, NoNode)
    ELSE Call("update", level, firstSibling.key, NoNode, NoNode)

\* f.node is newLeaf
set(f, rest, res) ==
    CASE f.pc = "start" -> Await(<<At(f, "oldLeaf")>> \o rest, QueryOf("getNode", 0, f.key, NoNode))
      [] f.pc = "oldLeaf" -> Goto(<<Call("replace", 0, f.key, f.node, res)>> \o rest, NoNode)

\* mutant of delete: the node === null early return is missing
delete_withoutAbsentCheck(f, rest, res) ==
    CASE f.pc = "start" -> Await(<<At(f, "node")>> \o rest, QueryOf("getNode", 0, f.key, NoNode))
      [] f.pc = "node" ->
            Fork(<<Call("getFirstSibling", 0, f.key, res, NoNode), At(f, "firstSibling")>> \o rest,
                 NoNode,
                 IF ~res.key.null /\ isBoundary(res) THEN "parents+leaf" ELSE "leaf")
      [] f.pc = "firstSibling" -> Goto(<<UpFrom(res, 1)>> \o rest, NoNode)

delete(f, rest, res) ==
    CASE f.pc = "start" -> Await(<<At(f, "node")>> \o rest, QueryOf("getNode", 0, f.key, NoNode))
      [] f.pc = "node" ->
            IF res = NoNode THEN Goto(rest, NoNode)
            ELSE \* deleteParents and deleteNode are called and not awaited
                 Fork(<<Call("getFirstSibling", 0, f.key, res, NoNode), At(f, "firstSibling")>> \o rest,
                      NoNode,
                      IF ~res.key.null /\ isBoundary(res) THEN "parents+leaf" ELSE "leaf")
      [] f.pc = "firstSibling" -> Goto(<<UpFrom(res, 1)>> \o rest, NoNode)

\* f.aux is oldNode
update(f, rest, res) ==
    CASE f.pc = "start" -> Await(<<At(f, "oldNode")>> \o rest, QueryOf("getNode", f.level, f.key, NoNode))
      [] f.pc = "oldNode" ->
            Await(<<[f EXCEPT !.pc = "hash", !.aux = res]>> \o rest,
                  QueryOf("getHash", f.level, f.key, NoNode))
      [] f.pc = "hash" ->
            Goto(<<Call("replace", f.level, f.key, Node(f.level, f.key, res.hash, Null), f.aux)>> \o rest,
                 NoNode)

\* mutant of replace: a new boundary gets no parents
replace_withoutCreateParents(f, rest, res) ==
    CASE f.pc = "start" ->
            IF f.aux # NoNode /\ isBoundary(f.aux)
            THEN Goto(<<Call("replaceBoundary", f.level, f.key, f.node, NoNode)>> \o rest, NoNode)
            ELSE Goto(<<Call("getFirstSibling", f.level, f.key, f.node, NoNode), At(f, "firstSibling")>>
                      \o rest, NoNode)
      [] f.pc = "firstSibling" ->
            Goto(<<Call("setNode", f.level, f.key, f.node, NoNode),
                   [f EXCEPT !.pc = "set", !.aux = res]>> \o rest, NoNode)
      [] f.pc = "set" -> Goto(<<At(f, "parents")>> \o rest, NoNode)
      [] f.pc = "parents" -> Goto(<<UpFrom(f.aux, f.level + 1)>> \o rest, NoNode)

\* f.node is newNode, f.aux is oldNode and then firstSibling
replace(f, rest, res) ==
    CASE f.pc = "start" ->
            IF f.aux # NoNode /\ isBoundary(f.aux)
            THEN Goto(<<Call("replaceBoundary", f.level, f.key, f.node, NoNode)>> \o rest, NoNode)
            ELSE Goto(<<Call("getFirstSibling", f.level, f.key, f.node, NoNode), At(f, "firstSibling")>>
                      \o rest, NoNode)
      [] f.pc = "firstSibling" ->
            Goto(<<Call("setNode", f.level, f.key, f.node, NoNode),
                   [f EXCEPT !.pc = "set", !.aux = res]>> \o rest, NoNode)
      [] f.pc = "set" ->
            IF isBoundary(f.node)
            THEN Goto(<<Call("createParents", f.level, f.key, NoNode, NoNode), At(f, "parents")>> \o rest,
                      NoNode)
            ELSE Goto(<<At(f, "parents")>> \o rest, NoNode)
      [] f.pc = "parents" -> Goto(<<UpFrom(f.aux, f.level + 1)>> \o rest, NoNode)

\* mutant of replaceBoundary: a node that stops being a boundary keeps its parents
replaceBoundary_keepsParents(f, rest, res) ==
    CASE f.pc = "start" ->
            Goto(<<Call("setNode", f.level, f.key, f.node, NoNode), At(f, "set")>> \o rest, NoNode)
      [] f.pc = "set" ->
            IF isBoundary(f.node)
            THEN Goto(<<Call("update", f.level + 1, f.key, NoNode, NoNode)>> \o rest, NoNode)
            ELSE Goto(<<At(f, "parents")>> \o rest, NoNode)
      [] f.pc = "parents" ->
            Goto(<<Call("getFirstSibling", f.level, f.key, f.node, NoNode), At(f, "firstSibling")>>
                 \o rest, NoNode)
      [] f.pc = "firstSibling" -> Goto(<<UpFrom(res, f.level + 1)>> \o rest, NoNode)

replaceBoundary(f, rest, res) ==
    CASE f.pc = "start" ->
            Goto(<<Call("setNode", f.level, f.key, f.node, NoNode), At(f, "set")>> \o rest, NoNode)
      [] f.pc = "set" ->
            IF isBoundary(f.node)
            THEN Goto(<<Call("update", f.level + 1, f.key, NoNode, NoNode)>> \o rest, NoNode)
            ELSE Goto(<<Call("deleteParents", f.level, f.key, NoNode, NoNode), At(f, "parents")>> \o rest,
                      NoNode)
      [] f.pc = "parents" ->
            Goto(<<Call("getFirstSibling", f.level, f.key, f.node, NoNode), At(f, "firstSibling")>>
                 \o rest, NoNode)
      [] f.pc = "firstSibling" -> Goto(<<UpFrom(res, f.level + 1)>> \o rest, NoNode)

\* mutant of updateAnchor: the anchor of the next level is not updated
updateAnchor_oneLevel(f, rest, res) ==
    CASE f.pc = "start" -> Await(<<At(f, "hash")>> \o rest, QueryOf("getHash", f.level, Null, NoNode))
      [] f.pc = "hash" ->
            Goto(<<Call("setNode", f.level, Null, Node(f.level, Null, res.hash, Null), NoNode),
                   At(f, "set")>> \o rest, NoNode)
      [] f.pc = "set" -> Await(<<At(f, "rows")>> \o rest, QueryOf("firstKeyed", f.level, Null, NoNode))
      [] f.pc = "rows" ->
            IF res = NoNode
            THEN Goto(<<Call("deleteParents", f.level, Null, NoNode, NoNode)>> \o rest, NoNode)
            ELSE Goto(rest, NoNode)

\* mutant of updateAnchor: it goes on at the same level
updateAnchor_sameLevel(f, rest, res) ==
    CASE f.pc = "start" -> Await(<<At(f, "hash")>> \o rest, QueryOf("getHash", f.level, Null, NoNode))
      [] f.pc = "hash" ->
            Goto(<<Call("setNode", f.level, Null, Node(f.level, Null, res.hash, Null), NoNode),
                   At(f, "set")>> \o rest, NoNode)
      [] f.pc = "set" -> Await(<<At(f, "rows")>> \o rest, QueryOf("firstKeyed", f.level, Null, NoNode))
      [] f.pc = "rows" ->
            IF res = NoNode
            THEN Goto(<<Call("deleteParents", f.level, Null, NoNode, NoNode)>> \o rest, NoNode)
            ELSE Goto(<<Call("updateAnchor", f.level, Null, NoNode, NoNode)>> \o rest, NoNode)

updateAnchor(f, rest, res) ==
    CASE f.pc = "start" -> Await(<<At(f, "hash")>> \o rest, QueryOf("getHash", f.level, Null, NoNode))
      [] f.pc = "hash" ->
            Goto(<<Call("setNode", f.level, Null, Node(f.level, Null, res.hash, Null), NoNode),
                   At(f, "set")>> \o rest, NoNode)
      [] f.pc = "set" -> Await(<<At(f, "rows")>> \o rest, QueryOf("firstKeyed", f.level, Null, NoNode))
      [] f.pc = "rows" ->
            IF res = NoNode
            THEN Goto(<<Call("deleteParents", f.level, Null, NoNode, NoNode)>> \o rest, NoNode)
            ELSE Goto(<<Call("updateAnchor", f.level + 1, Null, NoNode, NoNode)>> \o rest, NoNode)

deleteParents(f, rest, res) ==
    CASE f.pc = "start" ->
            Await(<<At(f, "node")>> \o rest, QueryOf("getNode", f.level + 1, f.key, NoNode))
      [] f.pc = "node" ->
            IF res # NoNode
            THEN Await(<<At(f, "deleted")>> \o rest, QueryOf("deleteNode", f.level + 1, f.key, NoNode))
            ELSE Goto(rest, NoNode)
      [] f.pc = "deleted" ->
            Goto(<<Call("deleteParents", f.level + 1, f.key, NoNode, NoNode)>> \o rest, NoNode)

\* mutant of createParents: a parent that is a boundary gets no parent of its own
createParents_oneLevel(f, rest, res) ==
    CASE f.pc = "start" ->
            Await(<<At(f, "hash")>> \o rest, QueryOf("getHash", f.level + 1, f.key, NoNode))
      [] f.pc = "hash" ->
            LET node == Node(f.level + 1, f.key, res.hash, Null)
            IN  Goto(<<Call("setNode", node.level, node.key, node, NoNode),
                       [f EXCEPT !.pc = "set", !.node = node]>> \o rest, NoNode)
      [] f.pc = "set" -> Goto(rest, NoNode)

\* f.node is the parent node
createParents(f, rest, res) ==
    CASE f.pc = "start" ->
            Await(<<At(f, "hash")>> \o rest, QueryOf("getHash", f.level + 1, f.key, NoNode))
      [] f.pc = "hash" ->
            LET node == Node(f.level + 1, f.key, res.hash, Null)
            IN  Goto(<<Call("setNode", node.level, node.key, node, NoNode),
                       [f EXCEPT !.pc = "set", !.node = node]>> \o rest, NoNode)
      [] f.pc = "set" ->
            IF isBoundary(f.node)
            THEN Goto(<<Call("createParents", f.level + 1, f.key, NoNode, NoNode)>> \o rest, NoNode)
            ELSE Goto(rest, NoNode)

getFirstSibling(f, rest, res) ==
    CASE f.pc = "start" ->
            IF f.node.key.null THEN Goto(rest, f.node)
            ELSE Await(<<At(f, "rows")>> \o rest, QueryOf("firstSibling", f.level, f.key, f.node))
      [] f.pc = "rows" ->
            IF res = NoNode THEN Throw("expected firstSibling !== undefined")
            ELSE Goto(rest, res)

\* mutant of setNode: always INSERT
setNode_alwaysInserts(f, rest, res) ==
    CASE f.pc = "start" ->
            Await(<<At(f, "exists")>> \o rest, QueryOf("getNode", f.node.level, f.node.key, NoNode))
      [] f.pc = "exists" ->
            Await(<<At(f, "written")>> \o rest, QueryOf("insert", f.node.level, f.node.key, f.node))
      [] f.pc = "written" -> Goto(rest, NoNode)

setNode(f, rest, res) ==
    CASE f.pc = "start" ->
            Await(<<At(f, "exists")>> \o rest, QueryOf("getNode", f.node.level, f.node.key, NoNode))
      [] f.pc = "exists" ->
            Await(<<At(f, "written")>> \o rest,
                  QueryOf(IF res = NoNode THEN "insert" ELSE "update", f.node.level, f.node.key, f.node))
      [] f.pc = "written" -> Goto(rest, NoNode)

deleteNode(f, rest, res) ==
    CASE f.pc = "start" -> Await(<<At(f, "deleted")>> \o rest, QueryOf("deleteNode", f.level, f.key, NoNode))
      [] f.pc = "deleted" -> Goto(rest, NoNode)

Method(f, rest, res) ==
    CASE f.fn = "set" -> set(f, rest, res)
      [] f.fn = "delete" -> delete(f, rest, res)
      [] f.fn = "update" -> update(f, rest, res)
      [] f.fn = "replace" -> replace(f, rest, res)
      [] f.fn = "replaceBoundary" -> replaceBoundary(f, rest, res)
      [] f.fn = "updateAnchor" -> updateAnchor(f, rest, res)
      [] f.fn = "deleteParents" -> deleteParents(f, rest, res)
      [] f.fn = "createParents" -> createParents(f, rest, res)
      [] f.fn = "getFirstSibling" -> getFirstSibling(f, rest, res)
      [] f.fn = "setNode" -> setNode(f, rest, res)
      [] f.fn = "deleteNode" -> deleteNode(f, rest, res)

RECURSIVE Run(_, _, _)
\* a chain from the point it is resumed at with res, up to its next await or its end
\* (each step's outcome is bound through a singleton set, so it is computed once)
Run(stack, res, fork) ==
    IF stack = <<>>
    THEN [kind |-> "end", stack |-> <<>>, query |-> NoQuery, res |-> res, fork |-> fork]
    ELSE CHOOSE r \in
             {LET forked == IF o.fork # "none" THEN o.fork ELSE fork
              IN  IF o.kind = "goto" THEN Run(o.stack, o.res, forked)
                  ELSE [o EXCEPT !.fork = forked] :
              o \in {Method(Head(stack), Tail(stack), res)}} : TRUE

(* ------------------------------------------------------------------ *)
(* The client: the chains of a mutation and the query queue            *)
(* ------------------------------------------------------------------ *)
ChainIds == {"main", "parents", "leaf"}
ChainOf(o) == [stack |-> o.stack, query |-> o.query]
NoChain == [stack |-> <<>>, query |-> NoQuery]
NoChains == [c \in ChainIds |-> NoChain]

Machine(rows, chs, q, err) == [nodes |-> rows, chains |-> chs, queue |-> q, error |-> err]

\* the awaited chain has ended: the promise of the mutation is settled
Settled(m) == m.chains["main"].stack = <<>>

\* a mutation is called: the awaited chain runs to its first query
Begin(m, frame) ==
    LET o == Run(<<frame>>, NoNode, "none")
    IN  Machine(m.nodes, [m.chains EXCEPT !["main"] = ChainOf(o)], m.queue \o <<"main">>, "none")

\* a client with no query in flight
Quiet(rows) == Machine(rows, NoChains, <<>>, "none")

SetFrame(k, v) == Call("set", 0, Bytes(k), Node(0, Bytes(k), hashEntry(k, v), Bytes(v)), NoNode)
DeleteFrame(k) == Call("delete", 0, Bytes(k), NoNode, NoNode)

\* the client after the query at the head of the queue returned ex and the chain
\* awaiting it ran on to o
Resumed(m, ex, o) ==
    LET c == Head(m.queue)
        key == m.chains[c].stack[Len(m.chains[c].stack)].key
        parents == Run(<<Call("deleteParents", 0, key, NoNode, NoNode)>>, NoNode, "none")
        leaf == Run(<<Call("deleteNode", 0, key, NoNode, NoNode)>>, NoNode, "none")
        started == IF o.fork = "parents+leaf" THEN <<"parents", "leaf">>
                   ELSE IF o.fork = "leaf" THEN <<"leaf">> ELSE <<>>
        chs == [id \in ChainIds |->
                   IF id = c THEN ChainOf(o)
                   ELSE IF id = "parents" /\ o.fork = "parents+leaf" THEN ChainOf(parents)
                   ELSE IF id = "leaf" /\ o.fork # "none" THEN ChainOf(leaf)
                   ELSE m.chains[id]]
    IN  Machine(ex.rows, chs,
                Tail(m.queue) \o started \o (IF o.kind = "await" THEN <<c>> ELSE <<>>),
                IF o.kind \notin {"await", "end"} THEN o.kind ELSE m.error)

\* the query at the head of the queue is run and the chain awaiting it resumes
StepM(m) ==
    LET c == m.chains[Head(m.queue)]
    IN  CHOOSE r \in UNION {{Resumed(m, ex, o) : o \in {Run(c.stack, ex.res, "none")}} :
                                ex \in {Exec(m.nodes, c.query)}} : TRUE

RECURSIVE Drain(_)
\* the mutation run to its end
Drain(m) == IF Settled(m) THEN m ELSE CHOOSE r \in {Drain(n) : n \in {StepM(m)}} : TRUE

runSet(rows, k, v) == Drain(Begin(Quiet(rows), SetFrame(k, v)))
runDelete(rows, k) == Drain(Begin(Quiet(rows), DeleteFrame(k)))

(* ------------------------------------------------------------------ *)
(* The specification                                                   *)
(* ------------------------------------------------------------------ *)
NoOp == [type |-> "none", key |-> <<>>, value |-> <<>>]
\* no second caller
NoSecond == [chains |-> NoChains, queue |-> <<>>, error |-> "none", overlapped |-> FALSE]
\* no Builder is constructed
NoBuilder == [rows |-> {}, nodeCount |-> 0]
NoUndo == [phase |-> "none", key |-> <<>>, value |-> <<>>, roots |-> {}]

\* Tree.initialize with clear: the table holds the leaf anchor
Init ==
    /\ K \in KValues
    /\ Q \in QValues
    /\ nodes = {Node(0, Null, LEAF_ANCHOR_HASH, Null)}
    /\ chains = NoChains
    /\ queue = <<>>
    /\ error = "none"
    /\ op = NoOp
    /\ pre = {}
    /\ retry = "no"
    /\ ref = {}
    /\ fresh = TRUE
    /\ undo = NoUndo
    /\ builder = NoBuilder
    /\ finalized = <<>>
    /\ second = NoSecond

This == Machine(nodes, chains, queue, error)

\* no mutation is running: the caller awaits each one
Idle == Settled(This)

Load(m) ==
    /\ nodes' = m.nodes
    /\ chains' = m.chains
    /\ queue' = m.queue
    /\ error' = m.error

Present(k) == \E e \in ref : e.key = k

Set(k, v) ==
    /\ Idle /\ retry = "no"
    /\ Load(Begin(This, SetFrame(k, v)))
    /\ op' = [type |-> "set", key |-> k, value |-> v]
    /\ pre' = nodes
    /\ ref' = {e \in ref : e.key # k} \cup {[key |-> k, value |-> v]}
    /\ fresh' = (fresh /\ ~Present(k))
    /\ undo' = IF Present(k) THEN NoUndo
               ELSE [phase |-> "set", key |-> k, value |-> v, roots |-> getRootRows(nodes)]
    /\ UNCHANGED <<second, builder, finalized, K, Q, retry>>

Delete(k) ==
    /\ Idle /\ retry = "no"
    /\ Load(Begin(This, DeleteFrame(k)))
    /\ op' = [type |-> "delete", key |-> k, value |-> <<>>]
    /\ pre' = nodes
    /\ ref' = {e \in ref : e.key # k}
    /\ fresh' = FALSE
    /\ undo' = IF undo.phase = "set" /\ undo.key = k THEN [undo EXCEPT !.phase = "delete"] ELSE NoUndo
    /\ UNCHANGED <<second, builder, finalized, K, Q, retry>>

\* one query of the running mutation
Storage ==
    /\ queue # <<>>
    /\ \E m \in {StepM(This)} :
       LET ended == Settled(m) /\ ~Idle
           forget == ended /\ retry = "no" /\ op.type # "initialize"
       IN  /\ Load(m)
           /\ op' = IF forget THEN NoOp ELSE op
           /\ pre' = IF forget THEN {} ELSE pre
           /\ retry' = IF ended /\ retry = "retrying" THEN "done" ELSE retry
    /\ UNCHANGED <<second, builder, finalized, K, Q, ref, fresh, undo>>

Next ==
    \/ \E k \in Keys, v \in Values : Set(k, v)
    \/ \E k \in Keys : Delete(k)
    \/ Storage

Spec == Init /\ [][Next]_vars

\* a storage failure: the connection is lost, every query in flight rejects and
\* the mutation throws with the writes made so far applied
Abort ==
    /\ ~Idle /\ retry = "no"
    /\ chains' = NoChains
    /\ queue' = <<>>
    /\ error' = "storage failure"
    /\ retry' = "aborted"
    /\ UNCHANGED <<second, builder, finalized, K, Q, nodes, op, pre, ref, fresh, undo>>

\* the caller runs the identical mutation again
Retry ==
    /\ retry = "aborted"
    /\ Load(Begin(This, IF op.type = "set" THEN SetFrame(op.key, op.value) ELSE DeleteFrame(op.key)))
    /\ retry' = "retrying"
    /\ UNCHANGED <<second, builder, finalized, K, Q, op, pre, ref, fresh, undo>>

NextRetry ==
    \/ \E k \in Keys, v \in Values : Set(k, v)
    \/ \E k \in Keys : Delete(k)
    \/ Storage
    \/ Abort
    \/ Retry

SpecRetry == Init /\ [][NextRetry]_vars

\* Tree.initialize without clear, on the table of an existing tree and with the
\* same options: the CREATE ... IF NOT EXISTS statements leave the rows alone,
\* then setNode writes the leaf anchor
Initialize ==
    /\ Idle /\ retry = "no"
    /\ Load(Begin(This, Call("setNode", 0, Null, Node(0, Null, LEAF_ANCHOR_HASH, Null), NoNode)))
    /\ op' = [type |-> "initialize", key |-> <<>>, value |-> <<>>]
    /\ pre' = nodes
    /\ UNCHANGED <<second, builder, finalized, K, Q, retry, ref, fresh, undo>>

NextInit ==
    \/ \E k \in Keys, v \in Values : Set(k, v)
    \/ \E k \in Keys : Delete(k)
    \/ Storage
    \/ Initialize

SpecInit == Init /\ [][NextInit]_vars

\* pg.Client runs every query it has queued
SpecLive == Init /\ [][Next]_vars /\ WF_vars(Storage)

(* ------------------------------------------------------------------ *)
(* Two callers: a second mutation on the same table, over a connection *)
(* of its own, not serialized with the first                           *)
(* ------------------------------------------------------------------ *)
\* the keys the second caller passes
SecondKeys == {KeyOf(i) : i \in 1..NumSecondKeys}

Other == Machine(nodes, second.chains, second.queue, second.error)

\* the first caller starts a mutation once both callers' mutations have ended
FirstSet(k, v) == Settled(Other) /\ ~second.overlapped /\ Set(k, v)
FirstDelete(k) == Settled(Other) /\ ~second.overlapped /\ Delete(k)

\* the second caller starts a mutation while the first caller's is running, a set
\* on a tree that has seen nothing but sets of at most MaxLeaves keys: its
\* call is made before the first query of the first caller's returns, and its
\* own first query runs at any later point
SecondBegin(frame) ==
    /\ Settled(Other) /\ ~second.overlapped /\ retry = "no"
    /\ ~Idle /\ fresh /\ Cardinality(Keyed(pre, 0)) <= MaxLeaves
    /\ Len(chains["main"].stack) = 1 /\ Head(chains["main"].stack).fn \in {"set", "delete"}
    /\ \E m \in {Begin(Machine(nodes, NoChains, <<>>, "none"), frame)} :
          second' = [chains |-> m.chains, queue |-> m.queue, error |-> m.error,
                     overlapped |-> TRUE]
    /\ fresh' = FALSE
    /\ undo' = NoUndo

SecondSet(k, v) ==
    /\ SecondBegin(SetFrame(k, v))
    /\ ref' = {e \in ref : e.key # k} \cup {[key |-> k, value |-> v]}
    /\ UNCHANGED <<builder, finalized, K, Q, nodes, chains, queue, error, op, pre, retry>>

SecondDelete(k) ==
    /\ SecondBegin(DeleteFrame(k))
    /\ ref' = {e \in ref : e.key # k}
    /\ UNCHANGED <<builder, finalized, K, Q, nodes, chains, queue, error, op, pre, retry>>

\* one query of the second caller's mutation
SecondStorage ==
    /\ second.queue # <<>>
    /\ \E m \in {StepM(Other)} :
          /\ nodes' = m.nodes
          /\ second' = [second EXCEPT !.chains = m.chains, !.queue = m.queue, !.error = m.error]
    /\ UNCHANGED <<builder, finalized, K, Q, chains, queue, error, op, pre, retry, ref, fresh, undo>>

NextConcurrent ==
    \/ \E k \in Keys, v \in Values : FirstSet(k, v)
    \/ \E k \in Keys : FirstDelete(k)
    \/ Storage
    \/ \E k \in SecondKeys, v \in Values : SecondSet(k, v)
    \/ \E k \in SecondKeys : SecondDelete(k)
    \/ SecondStorage

SpecConcurrent == Init /\ [][NextConcurrent]_vars

(* ------------------------------------------------------------------ *)
(* Builder (packages/okra), over a NodeStore                           *)
(* ------------------------------------------------------------------ *)
\* NodeStore: a fresh store holds the leaf anchor; setNode is an upsert by
\* (level, key); nodes(level) iterates a level in key order, the anchor first
storeInit == {Node(0, Null, LEAF_ANCHOR_HASH, Null)}
storeSetNode(rows, node) == (rows \ RowsOf(rows, node.level, node.key)) \cup {node}
storeGetNode(rows, level, key) ==
    IF RowsOf(rows, level, key) = {} THEN NoNode ELSE CHOOSE r \in RowsOf(rows, level, key) : TRUE
storeNodes(rows, level) == Ordered({r \in rows : r.level = level})

\* Builder.limit and Builder.isBoundary
builderIsBoundary(node) ==
    LET hi == node.hash[1] * 256 + node.hash[2]
        lo == node.hash[3] * 256 + node.hash[4]
        limitHi == 65536 \div Q
        limitLo == ((65536 % Q) * 65536) \div Q
    IN  hi < limitHi \/ (hi = limitHi /\ lo < limitLo)

\* mutant of builderNew: the anchor is not counted
builderNew_countsFromZero == [rows |-> storeInit, nodeCount |-> 0]

builderNew == [rows |-> storeInit, nodeCount |-> 1]

builderSet(b, key, value) ==
    [rows |-> storeSetNode(b.rows, Node(0, Bytes(key), hashEntry(key, value), Bytes(value))),
     nodeCount |-> b.nodeCount + 1]

RECURSIVE buildLoop_dropsLastChunk(_, _, _, _, _, _)
\* mutant of buildLoop: the chunk open at the end of the level is not emitted
buildLoop_dropsLastChunk(rows, level, iter, key, hash, nodeCount) ==
    IF iter = <<>>
    THEN [rows |-> rows, nodeCount |-> nodeCount]
    ELSE LET node == Head(iter)
         IN  IF builderIsBoundary(node)
             THEN buildLoop_dropsLastChunk(
                      storeSetNode(rows, Node(level + 1, key, HashDigest(hash, K), Null)),
                      level, Tail(iter), node.key, HashUpdate(HashCreate, node.hash), nodeCount + 1)
             ELSE buildLoop_dropsLastChunk(rows, level, Tail(iter), key,
                                           HashUpdate(hash, node.hash), nodeCount)

RECURSIVE buildLoop(_, _, _, _, _, _)
\* the while (true) of buildLevel: iter is what the iterator has left
buildLoop(rows, level, iter, key, hash, nodeCount) ==
    IF iter = <<>>
    THEN [rows |-> storeSetNode(rows, Node(level + 1, key, HashDigest(hash, K), Null)),
          nodeCount |-> nodeCount + 1]
    ELSE LET node == Head(iter)
         IN  IF builderIsBoundary(node)
             THEN buildLoop(storeSetNode(rows, Node(level + 1, key, HashDigest(hash, K), Null)),
                            level, Tail(iter), node.key, HashUpdate(HashCreate, node.hash),
                            nodeCount + 1)
             ELSE buildLoop(rows, level, Tail(iter), key, HashUpdate(hash, node.hash), nodeCount)

\* mutant of buildLevel: the count goes on from the nodes level + 1 already holds
buildLevel_keepsCount(rows, level) ==
    LET iter == storeNodes(rows, level)
        node == Head(iter)
    IN  buildLoop(rows, level, Tail(iter), node.key, HashUpdate(HashCreate, node.hash),
                  Cardinality({r \in rows : r.level = level + 1}))

\* the level holds its anchor first (the asserts of lines 50-51)
buildLevel(rows, level) ==
    LET iter == storeNodes(rows, level)
        node == Head(iter)
    IN  buildLoop(rows, level, Tail(iter), node.key, HashUpdate(HashCreate, node.hash), 0)

RECURSIVE finalizeLoop(_, _)
finalizeLoop(b, level) ==
    IF b.nodeCount > 1
    THEN CHOOSE r \in {finalizeLoop(built, level + 1) : built \in {buildLevel(b.rows, level)}} : TRUE
    ELSE [rows |-> b.rows, nodeCount |-> b.nodeCount, root |-> storeGetNode(b.rows, level, Null)]

finalize(b) == finalizeLoop(b, 0)

\* new Builder(store) over a freshly initialized store
InitBuilder ==
    /\ K \in KValues
    /\ Q \in QValues
    /\ nodes = {}
    /\ chains = NoChains
    /\ queue = <<>>
    /\ error = "none"
    /\ op = NoOp
    /\ pre = {}
    /\ retry = "no"
    /\ ref = {}
    /\ fresh = TRUE
    /\ undo = NoUndo
    /\ builder = builderNew
    /\ finalized = <<>>
    /\ second = NoSecond

BuilderSet(k, v) ==
    /\ builder.nodeCount < MaxNodeCount
    /\ builder' = builderSet(builder, k, v)
    /\ finalized' = <<>>
    /\ ref' = {e \in ref : e.key # k} \cup {[key |-> k, value |-> v]}
    /\ UNCHANGED <<second, K, Q, nodes, chains, queue, error, op, pre, retry, fresh, undo>>

BuilderFinalize ==
    /\ Len(finalized) < MaxFinalize
    /\ \E f \in {finalize(builder)} :
          /\ builder' = [rows |-> f.rows, nodeCount |-> f.nodeCount]
          /\ finalized' = Append(finalized, [root |-> f.root, before |-> builder.rows])
    /\ UNCHANGED <<second, K, Q, nodes, chains, queue, error, op, pre, retry, ref, fresh, undo>>

NextBuilder ==
    \/ \E k \in Keys, v \in Values : BuilderSet(k, v)
    \/ BuilderFinalize

SpecBuilder == InitBuilder /\ [][NextBuilder]_vars

(* ------------------------------------------------------------------ *)
(* The boundary tests, on a level that holds the anchor and one node    *)
(* with any hash                                                       *)
(* ------------------------------------------------------------------ *)
\* bytes around the limits 2^32 / Q of the widths 1..4
ProbeBytes == {0, 64, 84, 85, 86, 128, 255}

RECURSIVE Hashes(_)
\* the byte strings of the length over ProbeBytes
Hashes(len) == IF len = 0 THEN {<<>>} ELSE {<<b>> \o h : b \in ProbeBytes, h \in Hashes(len - 1)}

ProbeKey == <<0>>

InitBoundary ==
    /\ K \in {4, 5}
    /\ Q \in 1..MaxQ
    /\ nodes = {Node(0, Null, LEAF_ANCHOR_HASH, Null)}
    /\ chains = NoChains
    /\ queue = <<>>
    /\ error = "none"
    /\ op = NoOp
    /\ pre = {}
    /\ retry = "no"
    /\ ref = {}
    /\ fresh = TRUE
    /\ undo = NoUndo
    /\ builder = NoBuilder
    /\ finalized = <<>>
    /\ second = NoSecond

\* a node with the hash is stored next to the anchor
Probe ==
    /\ Keyed(nodes, 0) = {}
    /\ \E h \in Hashes(K) :
           nodes' = {Node(0, Null, LEAF_ANCHOR_HASH, Null), Node(0, Bytes(ProbeKey), h, Null)}
    /\ UNCHANGED <<second, builder, finalized, K, Q, chains, queue, error, op, pre, retry, ref, fresh, undo>>

NextBoundary == Probe

SpecBoundary == InitBoundary /\ [][NextBoundary]_vars

\* the first 4 bytes of the hash as an unsigned big-endian integer v are below
\* floor(2^32 / Q), that is (v + 1) * Q <= 2^32, in 16-bit halves
BelowLimit(hash) ==
    LET hi == hash[1] * 256 + hash[2]
        lo == hash[3] * 256 + hash[4]
        low == (lo + 1) * Q
        high == hi * Q + (low \div 65536)
    IN  high < 65536 \/ (high = 65536 /\ low % 65536 = 0)

(* ------------------------------------------------------------------ *)
(* Reference computations over the entries a tree should hold          *)
(* ------------------------------------------------------------------ *)
RECURSIVE SortEntries(_)
\* entries in ascending key order
SortEntries(es) ==
    IF es = {} THEN <<>>
    ELSE CHOOSE sorted \in {<<m>> \o SortEntries(es \ {m}) :
                             m \in {e \in es : \A o \in es : BytesLeq(e.key, o.key)}} : TRUE

RECURSIVE BuilderSetAll(_, _)
BuilderSetAll(b, es) ==
    IF es = <<>> THEN b ELSE BuilderSetAll(builderSet(b, Head(es).key, Head(es).value), Tail(es))

\* the root Builder.finalize returns for the entries, set in ascending key order
BuilderRoot(es) == finalize(BuilderSetAll(builderNew, SortEntries(es))).root

RECURSIVE TreeSetAll(_, _)
TreeSetAll(rows, es) ==
    IF es = <<>> THEN rows ELSE TreeSetAll(runSet(rows, Head(es).key, Head(es).value).nodes, Tail(es))

\* the rows of a second, freshly initialized tree after set of each entry
FreshTree(es) == TreeSetAll({Node(0, Null, LEAF_ANCHOR_HASH, Null)}, SortEntries(es))

Levels == {r.level : r \in nodes}
Top == CHOOSE l \in Levels : \A o \in Levels : o <= l
Anchors(level) == {r \in nodes : r.level = level /\ r.key.null}
RootView(rs) == {<<r.level, r.key, r.hash>> : r \in rs}

\* the members of the chunk of the level that starts at the node with the key:
\* that node, then every node up to and excluding the next boundary
ChunkOf(level, key) ==
    LET seq == Ordered({r \in nodes : r.level = level})
        starts == {i \in 1..Len(seq) : KeyMatches(seq[i].key, key)}
    IN  IF starts = {} THEN <<>>
        ELSE LET i == CHOOSE x \in starts : TRUE
                 last == CHOOSE j \in i..Len(seq) :
                            /\ \A m \in (i + 1)..j : ~isBoundary(seq[m])
                            /\ j = Len(seq) \/ isBoundary(seq[j + 1])
             IN  SubSeq(seq, i, last)

RECURSIVE ChunkBytes(_)
ChunkBytes(seq) == IF seq = <<>> THEN <<>> ELSE Head(seq).hash \o ChunkBytes(Tail(seq))

(* ------------------------------------------------------------------ *)
(* Claims                                                              *)
(* ------------------------------------------------------------------ *)

\* C1: after Tree.set of pairs with distinct keys, in any order, on a freshly
\* initialized tree, getRoot returns the level and hash of the root that
\* Builder.finalize returns for the same pairs set in ascending key order.
C1_OrderIndependence ==
    (Idle /\ fresh) =>
        \A r \in getRootRows(nodes) :
            r.level = BuilderRoot(ref).level /\ r.hash = BuilderRoot(ref).hash

C1_Witness ==
    /\ Idle /\ fresh /\ Cardinality(ref) >= 3
    /\ \E r \in Keyed(nodes, 0) : isBoundary(r) /\ r.key.bytes # MinKey(Keyed(nodes, 0)).key.bytes
    /\ \E r \in Keyed(nodes, 0) : ~isBoundary(r)
    /\ Top >= 3

\* C2: set(k, v) of an absent key followed by delete(k) leaves getRoot returning
\* the root hash it returned before the set.
C2_DeleteUndoesSet ==
    (Idle /\ undo.phase = "delete") =>
        {r.hash : r \in getRootRows(nodes)} = {r.hash : r \in undo.roots}

C2_Witness ==
    /\ Idle /\ undo.phase = "delete" /\ Cardinality(ref) >= 2
    /\ isBoundary([hash |-> hashEntry(undo.key, undo.value)])
    /\ \E e \in ref : BytesLess(e.key, undo.key)
    /\ \E e \in ref : BytesLess(undo.key, e.key)

\* C3: after any sequence of set and delete, getRoot returns the root (level,
\* key, hash) of a second fresh tree into which only the surviving pairs were set.
C3_SurvivorsOnly ==
    Idle => RootView(getRootRows(nodes)) = RootView(getRootRows(FreshTree(ref)))

C3_Witness ==
    /\ Idle /\ ~fresh /\ undo.phase = "delete" /\ Cardinality(ref) >= 2
    /\ isBoundary([hash |-> hashEntry(undo.key, undo.value)])
    /\ Top >= 2

\* C4: after any sequence of set and delete, the level-0 nodes with a key are
\* exactly the reference map: key k has a node with value v iff the last
\* mutation of k was set(k, v), and reads as absent otherwise.
C4_LeavesAreTheMap ==
    Idle =>
        \A k \in Keys :
            LET node == getNodeRow(nodes, 0, Bytes(k))
            IN  IF Present(k)
                THEN /\ node # NoNode
                     /\ [key |-> k, value |-> node.value.bytes] \in ref
                     /\ ~node.value.null
                     /\ Cardinality(RowsOf(nodes, 0, Bytes(k))) = 1
                ELSE node = NoNode

C4_Witness ==
    /\ Idle /\ ~fresh /\ Cardinality(ref) >= 2
    /\ \E k \in Keys : ~Present(k) /\ undo.phase = "delete" /\ undo.key = k
    /\ \E e \in ref : e.value # <<0>>

\* C5: after every completed set or delete, for every level L with a level
\* L + 1, the keys at level L + 1 are the keys of the boundary nodes of level L.
C5_ParentsAreBoundaries ==
    Idle =>
        \A L \in Levels :
            (L + 1) \in Levels =>
                {r.key : r \in Keyed(nodes, L + 1)}
                    = {r.key : r \in {x \in Keyed(nodes, L) : isBoundary(x)}}

C5_Witness ==
    /\ Idle /\ ~fresh
    /\ Keyed(nodes, 2) # {}
    /\ \E r \in Keyed(nodes, 0) : ~isBoundary(r)
    /\ \E r \in Keyed(nodes, 1) : ~isBoundary(r)

\* C6: after every completed set or delete, every node at a level L > 0 has the
\* digest of the hashes, in key order, of the level L - 1 nodes of its chunk.
C6_HashOfChunk ==
    Idle =>
        \A r \in nodes :
            r.level > 0 =>
                /\ ChunkOf(r.level - 1, r.key) # <<>>
                /\ r.hash = Blake3(ChunkBytes(ChunkOf(r.level - 1, r.key)), K)

C6_Witness ==
    /\ Idle /\ ~fresh
    /\ \E r \in Keyed(nodes, 1) : Len(ChunkOf(0, r.key)) >= 2
    /\ Len(ChunkOf(0, Null)) >= 2
    /\ Keyed(nodes, 2) # {}

\* C7: after every completed set or delete, the levels present are 0..T with no
\* gap, and each holds exactly one anchor node.
C7_OneAnchorPerLevel ==
    Idle =>
        /\ Levels = 0..Top
        /\ \A L \in Levels : Cardinality(Anchors(L)) = 1

C7_Witness == Idle /\ ~fresh /\ Top >= 3 /\ undo.phase = "delete"

\* C8: after every completed set or delete, the highest level holds exactly one
\* node, the anchor, and getRoot returns it.
C8_RootIsTheTopAnchor ==
    Idle =>
        /\ Cardinality({r \in nodes : r.level = Top}) = 1
        /\ getRootRows(nodes) = Anchors(Top)

C8_Witness ==
    /\ Idle /\ ~fresh /\ undo.phase = "delete" /\ Top = 1 /\ ref # {}
    /\ isBoundary([hash |-> hashEntry(undo.key, undo.value)])

\* C9: within one delete, the removal of the parent chain (deleteParents) and
\* of the leaf (deleteNode) has taken effect before the first-sibling lookup and
\* every later query of the delete runs, and nothing of the delete is pending
\* when it completes.
C9_DeleteInProgramOrder ==
    /\ (/\ op.type = "delete" /\ queue # <<>> /\ Head(queue) = "main"
        /\ Head(chains["main"].stack).fn # "delete")
       => (chains["parents"].stack = <<>> /\ chains["leaf"].stack = <<>>)
    /\ Idle => queue = <<>>

\* C10: a set or delete aborted by a storage failure after any prefix of its
\* writes, then run again to completion, leaves the rows one uninterrupted run
\* of it from the original rows leaves.
C10_RetryIsSafe ==
    retry = "done" =>
        /\ error = "none"
        /\ nodes = (IF op.type = "set" THEN runSet(pre, op.key, op.value)
                    ELSE runDelete(pre, op.key)).nodes

\* C11: delete(key) of a key with no level-0 node is a silent no-op: from the
\* call to its completion no step changes a row, no error is raised and no
\* query other than the read of the leaf is issued.
C11_DeleteAbsentIsNoOp ==
    [][(\/ op'.type = "delete" /\ getNodeRow(pre', 0, Bytes(op'.key)) = NoNode
        \/ op.type = "delete" /\ getNodeRow(pre, 0, Bytes(op.key)) = NoNode)
       => /\ nodes' = nodes
          /\ error' = "none"
          /\ \A c \in ChainIds : chains'[c].query.kind \in {"none", "getNode"}
          /\ chains'["parents"] = NoChain /\ chains'["leaf"] = NoChain]_vars

C11_Witness ==
    /\ op.type = "delete" /\ getNodeRow(pre, 0, Bytes(op.key)) = NoNode
    /\ queue = <<"main">> /\ nodes = pre
    /\ ref # {} /\ Top >= 2

\* C12: for every hash and every Q >= 1, Tree.isBoundary, Builder.isBoundary
\* and the byte-wise `hash < LIMIT_KEY` of getFirstSibling and getHash are each
\* true exactly when the first 4 bytes of the hash, as an unsigned big-endian
\* integer, are below floor(2^32 / Q).
C12_BoundaryTestsAgree ==
    \A r \in Keyed(nodes, 0) :
        /\ isBoundary(r) = BelowLimit(r.hash)
        /\ builderIsBoundary(r) = BelowLimit(r.hash)
        /\ HashBelowLimitKey(r.hash) = BelowLimit(r.hash)
        /\ (~firstSiblingRow(nodes, r).key.null) = BelowLimit(r.hash)
        /\ (r \notin getHashRows(nodes, 1, Null)) = BelowLimit(r.hash)

\* C12 for the widths that are at least 2
C12_BoundaryTestsAgreeFromTwo == Q >= 2 => C12_BoundaryTestsAgree

\* the rows of a level of the Builder's store
StoreLevel(rows, level) == {r \in rows : r.level = level}

ChunkStarts(rows, level) ==
    {Null} \cup {r.key : r \in {x \in Keyed(rows, level) : builderIsBoundary(x)}}

\* the members of the chunk of the level that starts at the key, in key order
StoreChunk(rows, level, key) ==
    LET seq == storeNodes(rows, level)
        i == CHOOSE x \in 1..Len(seq) : KeyMatches(seq[x].key, key)
        last == CHOOSE j \in i..Len(seq) :
                    /\ \A m \in (i + 1)..j : ~builderIsBoundary(seq[m])
                    /\ j = Len(seq) \/ builderIsBoundary(seq[j + 1])
    IN  SubSeq(seq, i, last)

\* the store was loaded from scratch: nothing is above level 0 that this build
\* did not write
FromScratch ==
    \/ \A r \in builder.rows : r.level = 0
    \/ Len(finalized) >= 1 /\ \A r \in finalized[1].before : r.level = 0

C15_BuildLevelIdempotent ==
    \A L \in {r.level : r \in builder.rows} :
        LET once == buildLevel(builder.rows, L)
            again == buildLevel(once.rows, L)
        IN  /\ again.nodeCount = once.nodeCount
            /\ StoreLevel(again.rows, L + 1) = StoreLevel(once.rows, L + 1)
            /\ again.rows = once.rows

C15_Witness ==
    /\ Len(finalized) = 0
    /\ Cardinality(Keyed(builder.rows, 0)) >= 3
    /\ Cardinality(ChunkStarts(builder.rows, 0)) >= 3
    /\ \E r \in Keyed(builder.rows, 0) : ~builderIsBoundary(r)

\* C20: finalize called a second time on the same Builder, with no Builder.set
\* in between, returns the root (level, key, hash) the first call returned and
\* leaves the store unchanged.
C20_FinalizeRepeatable ==
    Len(finalized) >= 2 =>
        /\ finalized[2].root = finalized[1].root
        /\ builder.rows = finalized[2].before

\* C20, the store alone: the second finalize writes nothing
C20_SecondFinalizeKeepsStore ==
    Len(finalized) >= 2 => builder.rows = finalized[2].before

\* the structure of the stored tree: above every level, the nodes with a key are
\* the parents of the boundaries below, and every node above level 0 has the
\* hash of its chunk
WellFormed ==
    /\ \A L \in Levels :
           (L + 1) \in Levels =>
               {r.key : r \in Keyed(nodes, L + 1)}
                   = {r.key : r \in {x \in Keyed(nodes, L) : isBoundary(x)}}
    /\ \A r \in nodes :
           r.level > 0 => r.hash = Blake3(ChunkBytes(ChunkOf(r.level - 1, r.key)), K)

\* C16: two mutations whose queries are interleaved can end, without an error,
\* in a tree that is not well formed (the witness), whereas mutations run one
\* after the other leave it well formed.
C16_SerialKeepsStructure ==
    (Idle /\ Settled(Other) /\ ~second.overlapped) => WellFormed

C16_Witness ==
    /\ Idle /\ Settled(Other) /\ second.overlapped
    /\ error = "none" /\ second.error = "none"
    /\ ~WellFormed

\* C17: every set and every delete ends after finitely many queries, at a
\* highest level that holds only the anchor.
C17_MutationsTerminate ==
    (~Idle) ~> (Idle /\ queue = <<>> /\ {r \in nodes : r.level = Top} = Anchors(Top))

C17_Witness ==
    /\ Idle /\ queue = <<>> /\ Top >= 4 /\ Cardinality(ref) >= 2
    /\ {r \in nodes : r.level = Top} = Anchors(Top)

\* C18: in every state reachable from initialize the node (level 0, key null)
\* exists, has no value and has the K-byte hash of the empty input; no set or
\* delete queues a write of it; and initialize called again without clear
\* changes no row.
C18_LeafAnchorKept ==
    /\ Anchors(0) = {Node(0, Null, LEAF_ANCHOR_HASH, Null)}
    /\ LEAF_ANCHOR_HASH = Blake3(<<>>, K) /\ Len(LEAF_ANCHOR_HASH) = K
    /\ op.type \in {"set", "delete"} =>
          \A c \in ChainIds :
              chains[c].query.kind \in {"insert", "update", "deleteNode"}
                  => ~(chains[c].query.level = 0 /\ chains[c].query.key.null)
    /\ op.type = "initialize" => (nodes = pre /\ error = "none")

C18_Witness ==
    /\ op.type = "initialize" /\ Idle /\ queue = <<>>
    /\ Top >= 2 /\ Cardinality(Keyed(nodes, 0)) >= 2

(* ------------------------------------------------------------------ *)
(* C19: in serial set and delete operations the assertion in           *)
(* getFirstSibling never fails: whenever the lookup of getFirstSibling *)
(* is pending for a node of level L, levels created earlier in the     *)
(* same mutation by createParents included, the anchor of level L is   *)
(* stored, and the lookup returns the stored boundary with the         *)
(* greatest key <= the node's key, or the anchor when there is none.   *)
(* ------------------------------------------------------------------ *)
C19_FirstSiblingFound ==
    /\ error = "none"
    /\ \A c \in ChainIds :
          chains[c].query.kind = "firstSibling" =>
              LET q == chains[c].query
                  before == {r \in Keyed(nodes, q.level) :
                                /\ BytesLeq(r.key.bytes, q.node.key.bytes)
                                /\ isBoundary(r)}
                  found == firstSiblingRow(nodes, q.node)
              IN  /\ Anchors(q.level) # {}
                  /\ found # NoNode
                  /\ found.level = q.level
                  /\ IF before = {} THEN found.key.null
                     ELSE found.key = MaxKey(before).key

\* the lookup is pending above the leaves, at a level where this set has
\* already stored a node that the tree did not have before, and rows with a
\* key at or before the node's key are stored at that level
C19_Witness ==
    /\ op.type = "set" /\ error = "none"
    /\ \E c \in ChainIds :
          /\ chains[c].query.kind = "firstSibling"
          /\ chains[c].query.level >= 1
          /\ \E r \in nodes :
                /\ r.level >= chains[c].query.level
                /\ RowsOf(pre, r.level, r.key) = {}
          /\ \E r \in Keyed(nodes, chains[c].query.level) :
                BytesLeq(r.key.bytes, chains[c].query.node.key.bytes)
          /\ firstSiblingRow(nodes, chains[c].query.node) # NoNode

====
